---- MODULE Spec2Model ----
(***************************************************************************)
(* Model of cmk/plugins/smart/agent_based/smart_ata.py: discovery of the   *)
(* SMART ATA baseline and the attribute check (_check_smart_ata) with its  *)
(* regression comparison and the rate check of attribute 188.              *)
(*                                                                         *)
(* Optional values (Python None / a value) are sequences of length 0 / 1.  *)
(* A generator is modelled by the record of what it has yielded, the value *)
(* store it leaves behind and the exception that ended it (None when it    *)
(* ran to completion).                                                     *)
(***************************************************************************)
EXTENDS Integers, Sequences, FiniteSets, TLC

VARIABLES section, params, value_store, discovered_from, call, emitted, raised

vars == <<section, params, value_store, discovered_from, call, emitted, raised>>

None == <<>>
Some(x) == <<x>>

(* ---------------------------------------------------------------- bounds *)
\* largest raw value a regression counter takes in the model
MaxRaw == 1

(* ------------------------------------------------------------- constants *)
MAX_COMMAND_TIMEOUTS_PER_HOUR == 100
SECONDS_PER_HOUR == 60 * 60

Key == "k1"
IDs == {5, 9, 10, 12, 184, 187, 188, 196, 197, 199}
DiscoveredIDs == {5, 10, 184, 187, 188, 196, 197, 199}
RegressionIDs == DiscoveredIDs \ {188}
UDMA_NAME == "UDMA_CRC_Error_Count"

\* timestamps time.time() returns and raw values the command timeout counter takes
Times == {0, 1800, 3600}
CounterValues == {0, 50, 101}

(* ------------------------------------------------------------ disk data *)
AttrName(id) == IF id = 199 THEN UDMA_NAME ELSE "Attribute"

Entry(id, name, raw, value, thresh) ==
    [id |-> id, name |-> name, raw |-> raw, value |-> value, thresh |-> thresh]

\* a healthy disk exposing all ten attributes, every counter at 0
BaseTable == [id \in IDs |-> Entry(id, AttrName(id), 0, 100, 36)]

Without(t, id) == [i \in (DOMAIN t) \ {id} |-> t[i]]

\* the tables the parser hands over: the base table, or the base table with one
\* attribute missing or one attribute's entry changed
Tables ==
    {BaseTable}
    \cup {Without(BaseTable, id) : id \in IDs}
    \cup {[BaseTable EXCEPT ![id].raw = r] : id \in IDs \ {188}, r \in 1..MaxRaw}
    \cup {[BaseTable EXCEPT ![188].raw = r] : r \in CounterValues}
    \cup {[BaseTable EXCEPT ![196].raw = r, ![196].value = n] :
              r \in 0..MaxRaw, n \in {35, 36}}
    \cup {[BaseTable EXCEPT ![199].raw = r, ![199].name = "CRC_Error_Count"] :
              r \in 0..MaxRaw}

ATAAll(table) == [cls |-> "ATAAll", device |-> "ATADevice", ata_smart_attributes |-> table]
NVMeAll == [cls |-> "NVMeAll", device |-> "NVMeDevice", ata_smart_attributes |-> None]

Disks == {ATAAll(Some(t)) : t \in Tables} \cup {ATAAll(None), NVMeAll}

\* section.devices: a mapping from key to disk; the key may be missing
Sections == {[devices |-> [k \in {Key} |-> d]] : d \in Disks}
            \cup {[devices |-> [k \in {} |-> NVMeAll]]}

devices_get(sec, key) ==
    IF key \in DOMAIN sec.devices THEN Some(sec.devices[key]) ELSE None

by_id(disk, id) ==
    IF disk.ata_smart_attributes = None THEN None
    ELSE LET t == disk.ata_smart_attributes[1]
         IN IF id \in DOMAIN t THEN Some(t[id]) ELSE None

(* ------------------------------------------------- results and metrics *)
\* Result(state=..., summary=f"{label}: {value} ..."): detail is what the summary
\* shows besides the value (the discovered value, the levels, the ceiling)
Result(state, label, value, detail) ==
    [type |-> "Result", state |-> state, label |-> label, value |-> value, detail |-> detail]

Metric(name, value) ==
    [type |-> "Metric", state |-> "OK", label |-> name, value |-> value, detail |-> None]

\* what a generator has done when it stops
Gen(out, store, exc) == [emitted |-> out, value_store |-> store, raised |-> exc]

(* ------------------------------------------------ host framework (API) *)
\* check_levels without levels: always OK; with a metric name also a metric
check_levels(value, label, metric_name) ==
    <<Result("OK", label, value, None)>>
    \o (IF metric_name = None THEN <<>> ELSE <<Metric(metric_name[1], value)>>)

\* check_levels with levels_lower=("fixed", (warn, crit)) and no metric name
check_levels_lower(value, warn, crit, label) ==
    IF value < crit THEN <<Result("CRIT", label, value, Some(<<warn, crit>>))>>
    ELSE IF value < warn THEN <<Result("WARN", label, value, Some(<<warn, crit>>))>>
    ELSE <<Result("OK", label, value, None)>>

store_get(store, key) == IF key \in DOMAIN store THEN Some(store[key]) ELSE None

store_set(store, key, v) ==
    [k \in (DOMAIN store) \cup {key} |-> IF k = key THEN v ELSE store[k]]

\* get_rate: stores (time, value) under key, then raises GetRateError when there
\* is no previous sample or no time difference, else returns the rate as the
\* exact quotient num / den (den > 0)
get_rate(store, key, time, value) ==
    LET last_state == store_get(store, key)
        new == store_set(store, key, <<time, value>>)
    IN  IF last_state = None
        THEN [value_store |-> new, raised |-> Some("GetRateError"), rate |-> None]
        ELSE LET last_time == last_state[1][1]
                 last_value == last_state[1][2]
             IN  IF time <= last_time
                 THEN [value_store |-> new, raised |-> Some("GetRateError"), rate |-> None]
                 ELSE [value_store |-> new, raised |-> None,
                       rate |-> Some([num |-> value - last_value, den |-> time - last_time])]

\* rate >= limit_num / limit_den, for positive denominators
rate_ge(rate, limit_num, limit_den) == rate.num * limit_den >= limit_num * rate.den

(* ------------------------------------------------------------ discovery *)
\* "id_5": entry.raw.value if (entry := disk.by_id(5)) is not None else None
discovered_raw(disk, id) ==
    IF by_id(disk, id) # None THEN Some(by_id(disk, id)[1].raw) ELSE None

\* the parameters of the services discover_smart_ata yields for the section
discover_smart_ata(sec) ==
    { [key |-> key,
       id_5 |-> discovered_raw(sec.devices[key], 5),
       id_10 |-> discovered_raw(sec.devices[key], 10),
       id_184 |-> discovered_raw(sec.devices[key], 184),
       id_187 |-> discovered_raw(sec.devices[key], 187),
       id_188 |-> discovered_raw(sec.devices[key], 188),
       id_196 |-> discovered_raw(sec.devices[key], 196),
       id_197 |-> discovered_raw(sec.devices[key], 197),
       id_199 |-> discovered_raw(sec.devices[key], 199)] :
      key \in {k \in DOMAIN sec.devices :
                  /\ sec.devices[k].device = "ATADevice"
                  /\ sec.devices[k].ata_smart_attributes # None} }

(* ---------------------------------------------------------------- check *)
_check_against_discovery(value, discovered_value, label, metric_name) ==
    (IF discovered_value # None /\ value > discovered_value[1]
     THEN <<Result("CRIT", label, value, discovered_value)>>
     ELSE <<Result("OK", label, value, None)>>)
    \o <<Metric(metric_name, value)>>

\* _check_command_timeout with "rate > ceiling" for "rate >= ceiling"
_check_command_timeout_strict(disk, store, now) ==
    IF by_id(disk, 188) # None
    THEN LET raw == by_id(disk, 188)[1].raw
             r == get_rate(store, "cmd_timeout", now, raw)
         IN  IF r.raised # None
             THEN Gen(<<>>, r.value_store, r.raised)
             ELSE Gen((IF ~rate_ge([num |-> MAX_COMMAND_TIMEOUTS_PER_HOUR,
                                    den |-> SECONDS_PER_HOUR],
                                   r.rate[1].num, r.rate[1].den)
                       THEN <<Result("CRIT", "Command Timeout Counter", raw,
                                     Some(MAX_COMMAND_TIMEOUTS_PER_HOUR))>>
                       ELSE <<Result("OK", "Command Timeout Counter", raw, None)>>)
                      \o <<Metric("harddrive_cmd_timeouts", raw)>>,
                      r.value_store, None)
    ELSE Gen(<<>>, store, None)

\* _check_command_timeout that gives up on a missing previous sample before
\* the current sample is stored
_check_command_timeout_unprimed(disk, store, now) ==
    IF by_id(disk, 188) # None
    THEN LET raw == by_id(disk, 188)[1].raw
             r == get_rate(store, "cmd_timeout", now, raw)
         IN  IF store_get(store, "cmd_timeout") = None
             THEN Gen(<<>>, store, Some("GetRateError"))
             ELSE IF r.raised # None
             THEN Gen(<<>>, r.value_store, r.raised)
             ELSE Gen((IF rate_ge(r.rate[1], MAX_COMMAND_TIMEOUTS_PER_HOUR, SECONDS_PER_HOUR)
                       THEN <<Result("CRIT", "Command Timeout Counter", raw,
                                     Some(MAX_COMMAND_TIMEOUTS_PER_HOUR))>>
                       ELSE <<Result("OK", "Command Timeout Counter", raw, None)>>)
                      \o <<Metric("harddrive_cmd_timeouts", raw)>>,
                      r.value_store, None)
    ELSE Gen(<<>>, store, None)

\* _check_command_timeout that divides the difference to the stored sample by
\* the time difference itself and only gives up when time runs backwards
_check_command_timeout_divides(disk, store, now) ==
    IF by_id(disk, 188) # None
    THEN LET raw == by_id(disk, 188)[1].raw
             last == store_get(store, "cmd_timeout")
             new == store_set(store, "cmd_timeout", <<now, raw>>)
         IN  IF last = None \/ now < last[1][1]
             THEN Gen(<<>>, new, Some("GetRateError"))
             ELSE IF now - last[1][1] = 0
             THEN Gen(<<>>, new, Some("ZeroDivisionError"))
             ELSE Gen((IF rate_ge([num |-> raw - last[1][2], den |-> now - last[1][1]],
                                  MAX_COMMAND_TIMEOUTS_PER_HOUR, SECONDS_PER_HOUR)
                       THEN <<Result("CRIT", "Command Timeout Counter", raw,
                                     Some(MAX_COMMAND_TIMEOUTS_PER_HOUR))>>
                       ELSE <<Result("OK", "Command Timeout Counter", raw, None)>>)
                      \o <<Metric("harddrive_cmd_timeouts", raw)>>,
                      new, None)
    ELSE Gen(<<>>, store, None)

_check_command_timeout(disk, store, now) ==
    IF by_id(disk, 188) # None
    THEN LET command_timeout_counter == by_id(disk, 188)[1]
             r == get_rate(store, "cmd_timeout", now, command_timeout_counter.raw)
         IN  IF r.raised # None
             THEN Gen(<<>>, r.value_store, r.raised)
             ELSE Gen((IF rate_ge(r.rate[1], MAX_COMMAND_TIMEOUTS_PER_HOUR, SECONDS_PER_HOUR)
                       THEN <<Result("CRIT", "Command Timeout Counter",
                                     command_timeout_counter.raw,
                                     Some(MAX_COMMAND_TIMEOUTS_PER_HOUR))>>
                       ELSE <<Result("OK", "Command Timeout Counter",
                                     command_timeout_counter.raw, None)>>)
                      \o <<Metric("harddrive_cmd_timeouts", command_timeout_counter.raw)>>,
                      r.value_store, None)
    ELSE Gen(<<>>, store, None)

\* the regression block of one attribute: nothing when the attribute is absent
regression(disk, p, id, param, label, metric_name) ==
    IF by_id(disk, id) # None
    THEN _check_against_discovery(by_id(disk, id)[1].raw, p[param], label, metric_name)
    ELSE <<>>

\* the check_levels block of attributes 9 and 12
plain_levels(disk, id, label, metric_name) ==
    IF by_id(disk, id) # None
    THEN check_levels(by_id(disk, id)[1].raw, label, Some(metric_name))
    ELSE <<>>

reallocated_events(disk, p) ==
    IF by_id(disk, 196) # None
    THEN _check_against_discovery(by_id(disk, 196)[1].raw, p.id_196,
                                  "Reallocated events", "harddrive_reallocated_events")
         \o check_levels_lower(by_id(disk, 196)[1].value, by_id(disk, 196)[1].thresh,
                               by_id(disk, 196)[1].thresh, "Normalized value")
    ELSE <<>>

crc_errors(disk, p) ==
    IF by_id(disk, 199) # None
    THEN IF by_id(disk, 199)[1].name = UDMA_NAME
         THEN _check_against_discovery(by_id(disk, 199)[1].raw, p.id_199,
                                       "UDMA CRC errors", "harddrive_udma_crc_errors")
         ELSE _check_against_discovery(by_id(disk, 199)[1].raw, p.id_199,
                                       "CRC errors", "harddrive_crc_errors")
    ELSE <<>>

\* the blocks of attributes 5, 9, 10, 12, 184 and 187, in the order of the code
head_results(disk, p) ==
    regression(disk, p, 5, "id_5", "Reallocated sectors", "harddrive_reallocated_sectors")
    \o plain_levels(disk, 9, "Powered on", "uptime")
    \o regression(disk, p, 10, "id_10", "Spin retries", "harddrive_spin_retries")
    \o plain_levels(disk, 12, "Power cycles", "harddrive_power_cycles")
    \o regression(disk, p, 184, "id_184", "End-to-End Errors", "harddrive_end_to_end_errors")
    \o regression(disk, p, 187, "id_187", "Uncorrectable errors",
                  "harddrive_uncorrectable_errors")

\* the blocks of attributes 196, 197 and 199, which follow the rate check
tail_results(disk, p) ==
    reallocated_events(disk, p)
    \o regression(disk, p, 197, "id_197", "Pending sectors", "harddrive_pending_sectors")
    \o crc_errors(disk, p)

\* what a run of _check_smart_ata leaves behind: the yielded results, the
\* exception that ended it, and the state of the objects it was handed
Run(out, exc, store, p, sec) ==
    [emitted |-> out, raised |-> exc, value_store |-> store, params |-> p, section |-> sec]

\* _check_smart_ata without the isinstance test: a disk that is missing or of
\* another class has no by_id, and the first lookup fails
_check_smart_ata_unguarded(p, sec, store, now) ==
    LET found == devices_get(sec, p.key)
    IN  IF found = None \/ found[1].cls # "ATAAll"
        THEN Run(<<>>, Some("AttributeError"), store, p, sec)
        ELSE LET disk == found[1]
                 ct == _check_command_timeout(disk, store, now)
             IN  IF ct.raised # None
                 THEN Run(head_results(disk, p) \o ct.emitted, ct.raised,
                          ct.value_store, p, sec)
                 ELSE Run(head_results(disk, p) \o ct.emitted \o tail_results(disk, p),
                          None, ct.value_store, p, sec)

\* _check_smart_ata that takes the current raw value of attribute 5 as the new
\* baseline once it has been reported
_check_smart_ata_recapture(p, sec, store, now) ==
    LET found == devices_get(sec, p.key)
    IN  IF found = None \/ found[1].cls # "ATAAll"
        THEN Run(<<>>, None, store, p, sec)
        ELSE LET disk == found[1]
                 ct == _check_command_timeout(disk, store, now)
                 q == IF by_id(disk, 5) # None
                      THEN [p EXCEPT !.id_5 = Some(by_id(disk, 5)[1].raw)] ELSE p
             IN  IF ct.raised # None
                 THEN Run(head_results(disk, p) \o ct.emitted, ct.raised,
                          ct.value_store, q, sec)
                 ELSE Run(head_results(disk, p) \o ct.emitted \o tail_results(disk, p),
                          None, ct.value_store, q, sec)

_check_smart_ata(p, sec, store, now) ==
    LET found == devices_get(sec, p.key)
    IN  IF found = None \/ found[1].cls # "ATAAll"
        THEN Run(<<>>, None, store, p, sec)
        ELSE LET disk == found[1]
                 ct == _check_command_timeout(disk, store, now)
             IN  IF ct.raised # None
                 THEN Run(head_results(disk, p) \o ct.emitted, ct.raised,
                          ct.value_store, p, sec)
                 ELSE Run(head_results(disk, p) \o ct.emitted \o tail_results(disk, p),
                          None, ct.value_store, p, sec)

(* -------------------------------------------------------- state machine *)
\* the per-item value store before the first check: no sample of this plugin,
\* and one entry under a key this plugin does not own
InitialStore == [k \in {"unrelated"} |-> <<0, 0>>]

\* the raw values a disk record shows for the attributes discovery looks at
raw_values(disk) ==
    [id \in DiscoveredIDs |->
        IF disk.ata_smart_attributes # None /\ id \in DOMAIN disk.ata_smart_attributes[1]
        THEN Some(disk.ata_smart_attributes[1][id].raw) ELSE None]

Init ==
    /\ section \in Sections
    /\ params = None
    /\ value_store = InitialStore
    /\ discovered_from = None
    /\ call = None
    /\ emitted = <<>>
    /\ raised = None

\* the agent delivers a new section; the results of the last check are consumed
AgentUpdate ==
    /\ \E s \in Sections \ {section} : section' = s
    /\ call' = None
    /\ emitted' = <<>>
    /\ raised' = None
    /\ UNCHANGED <<params, value_store, discovered_from>>

\* the host runs discovery and stores the yielded parameters for the item;
\* discovered_from remembers the raw values the disk showed at that moment
Discover ==
    /\ \E p \in discover_smart_ata(section) :
         /\ params' = Some(p)
         /\ discovered_from' = Some(raw_values(section.devices[p.key]))
    /\ call' = None
    /\ emitted' = <<>>
    /\ raised' = None
    /\ UNCHANGED <<section, value_store>>

\* check_smart_ata: one check cycle with the stored parameters, the current
\* section, the item's value store and the time time.time() returns
Check ==
    /\ params # None
    /\ \E now \in Times :
         LET g == _check_smart_ata(params[1], section, value_store, now)
         IN  /\ call' = Some([now |-> now, value_store |-> value_store])
             /\ emitted' = g.emitted
             /\ raised' = g.raised
             /\ value_store' = g.value_store
             /\ params' = Some(g.params)
             /\ section' = g.section
    /\ UNCHANGED discovered_from

Next == AgentUpdate \/ Discover \/ Check

Spec == Init /\ [][Next]_vars

(* ------------------------------------------------- reading a check run *)
\* a check has just run: call holds its timestamp and the store it was given
Checked == call # None
Now == call[1].now
Before == call[1].value_store
Found == devices_get(section, params[1].key)
Resolved == Checked /\ Found # None /\ Found[1].cls = "ATAAll"
Table == Found[1].ata_smart_attributes
Present(id) == Resolved /\ Table # None /\ id \in DOMAIN Table[1]
Attr(id) == Table[1][id]

Baseline(id) ==
    CASE id = 5 -> params[1].id_5
      [] id = 10 -> params[1].id_10
      [] id = 184 -> params[1].id_184
      [] id = 187 -> params[1].id_187
      [] id = 196 -> params[1].id_196
      [] id = 197 -> params[1].id_197
      [] id = 199 -> params[1].id_199

LabelOf(id) ==
    CASE id = 5 -> "Reallocated sectors"
      [] id = 9 -> "Powered on"
      [] id = 10 -> "Spin retries"
      [] id = 12 -> "Power cycles"
      [] id = 184 -> "End-to-End Errors"
      [] id = 187 -> "Uncorrectable errors"
      [] id = 188 -> "Command Timeout Counter"
      [] id = 196 -> "Reallocated events"
      [] id = 197 -> "Pending sectors"
      [] id = 199 -> IF Attr(199).name = "UDMA_CRC_Error_Count"
                     THEN "UDMA CRC errors" ELSE "CRC errors"

MetricOf(id) ==
    CASE id = 5 -> "harddrive_reallocated_sectors"
      [] id = 9 -> "uptime"
      [] id = 10 -> "harddrive_spin_retries"
      [] id = 12 -> "harddrive_power_cycles"
      [] id = 184 -> "harddrive_end_to_end_errors"
      [] id = 187 -> "harddrive_uncorrectable_errors"
      [] id = 188 -> "harddrive_cmd_timeouts"
      [] id = 196 -> "harddrive_reallocated_events"
      [] id = 197 -> "harddrive_pending_sectors"
      [] id = 199 -> IF Attr(199).name = "UDMA_CRC_Error_Count"
                     THEN "harddrive_udma_crc_errors" ELSE "harddrive_crc_errors"

ResultsLabelled(out, label) ==
    {i \in DOMAIN out : out[i].type = "Result" /\ out[i].label = label}
MetricsNamed(out, name) ==
    {i \in DOMAIN out : out[i].type = "Metric" /\ out[i].label = name}

CrcLabels == {"UDMA CRC errors", "CRC errors"}
CrcMetrics == {"harddrive_udma_crc_errors", "harddrive_crc_errors"}

\* the run emitted a result and a metric of attribute id (for 199 under either
\* of its two labels)
TupleEmitted(id) ==
    /\ \E i \in DOMAIN emitted :
          /\ emitted[i].type = "Result"
          /\ emitted[i].label \in (IF id = 199 THEN CrcLabels ELSE {LabelOf(id)})
    /\ \E j \in DOMAIN emitted :
          /\ emitted[j].type = "Metric"
          /\ emitted[j].label \in (IF id = 199 THEN CrcMetrics ELSE {MetricOf(id)})

\* the state the regression rule prescribes for raw value v against baseline b
Verdict(v, b) == IF b # None /\ v > b[1] THEN "CRIT" ELSE "OK"

\* the run emitted the regression result of attribute id, with the state the
\* rule prescribes against baseline b, and a metric carrying the raw value
RegressionReported(id, b) ==
    /\ \E i \in ResultsLabelled(emitted, LabelOf(id)) :
          /\ emitted[i].value = Attr(id).raw
          /\ emitted[i].state = Verdict(Attr(id).raw, b)
    /\ \E j \in MetricsNamed(emitted, MetricOf(id)) : emitted[j].value = Attr(id).raw

\* the run was cut short by the exception of the rate check
CutShort == Resolved /\ raised = Some("GetRateError")

(* ----------------------------------------------------------------- C1 *)
\* C1: for every regression attribute present on the resolved disk, the check
\* emits its regression result, CRIT exactly when a baseline is recorded and
\* the raw value exceeds it and OK otherwise, and a metric carrying the raw
\* value.
C1_RegressionVerdictEmitted ==
    Resolved => \A id \in RegressionIDs : Present(id) => RegressionReported(id, Baseline(id))

\* what holds of the code: every regression result that is emitted has the
\* state the rule prescribes and is followed by its metric; the results of
\* 196, 197 and 199 are missing exactly when the rate check raised
RegressionVerdictWhenReached ==
    Resolved =>
      \A id \in RegressionIDs : Present(id) =>
         IF CutShort /\ id \in {196, 197, 199}
         THEN ResultsLabelled(emitted, LabelOf(id)) = {}
         ELSE RegressionReported(id, Baseline(id))

(* ----------------------------------------------------------------- C3 *)
\* C3: on a resolved disk the tuple of each attribute other than 188 is emitted
\* exactly when the attribute is present, whatever the other attributes and
\* the state of the rate store.
C3_PresentAttributesEmitted ==
    Resolved =>
      \A id \in IDs \ {188} :
         Present(id) <=> TupleEmitted(id)

\* what holds of the code: the tuples of 5, 9, 10, 12, 184 and 187 are emitted
\* exactly when the attribute is present; those of 196, 197 and 199 exactly
\* when the attribute is present and the rate check did not raise
EmittedUnlessCutShort ==
    Resolved =>
      \A id \in IDs \ {188} :
         (Present(id) /\ ~(CutShort /\ id \in {196, 197, 199})) <=> TupleEmitted(id)

\* the rate check raises exactly when attribute 188 is present and the store
\* holds no sample with an earlier timestamp
CutShortCondition ==
    Resolved =>
      (CutShort <=> /\ Present(188)
                    /\ \/ store_get(Before, "cmd_timeout") = None
                       \/ Now <= store_get(Before, "cmd_timeout")[1][1])

(* ----------------------------------------------------------------- C7 *)
\* C7: when attribute 196 is present the run emits both the regression result
\* on the raw value and the lower-bound result on the normalized value (alert
\* exactly when normalized value < threshold), each with its own state.
C7_BothResultsFor196 ==
    Present(196) =>
      /\ RegressionReported(196, Baseline(196))
      /\ \E i \in ResultsLabelled(emitted, "Normalized value") :
            /\ emitted[i].value = Attr(196).value
            /\ emitted[i].state # "OK" <=> Attr(196).value < Attr(196).thresh

\* what holds of the code: both results of 196 are emitted, each with its own
\* state, unless the rate check raised
BothResultsFor196WhenReached ==
    (Present(196) /\ ~CutShort) =>
      /\ RegressionReported(196, Baseline(196))
      /\ \E i \in ResultsLabelled(emitted, "Normalized value") :
            /\ emitted[i].value = Attr(196).value
            /\ emitted[i].state # "OK" <=> Attr(196).value < Attr(196).thresh

(* ----------------------------------------------------------------- C8 *)
\* C8: when attribute 199 is present each run emits exactly one regression
\* result and exactly one metric for it, under the label and metric name the
\* attribute name selects, compared against id_199.
C8_ExactlyOneCrcPair ==
    Present(199) =>
      /\ Cardinality({i \in DOMAIN emitted :
            emitted[i].type = "Result" /\ emitted[i].label \in CrcLabels}) = 1
      /\ Cardinality({i \in DOMAIN emitted :
            emitted[i].type = "Metric" /\ emitted[i].label \in CrcMetrics}) = 1
      /\ RegressionReported(199, params[1].id_199)

\* what holds of the code: never more than one result and one metric for 199,
\* and exactly one pair, chosen by the name, unless the rate check raised
CrcPairWhenReached ==
    Present(199) =>
      /\ Cardinality({i \in DOMAIN emitted :
            emitted[i].type = "Result" /\ emitted[i].label \in CrcLabels})
         = IF CutShort THEN 0 ELSE 1
      /\ Cardinality({i \in DOMAIN emitted :
            emitted[i].type = "Metric" /\ emitted[i].label \in CrcMetrics})
         = IF CutShort THEN 0 ELSE 1
      /\ ~CutShort => RegressionReported(199, params[1].id_199)

(* ---------------------------------------------------------------- C10 *)
\* C10: after discovery, every check reports each present regression attribute
\* CRIT exactly when its raw value exceeds the raw value the disk showed at
\* discovery, and OK otherwise (also when the attribute was absent at
\* discovery).
C10_CriticalIffAboveDiscovery ==
    (Resolved /\ discovered_from # None) =>
      \A id \in RegressionIDs : Present(id) => RegressionReported(id, discovered_from[1][id])

\* what holds of the code: the parameters are the raw values of discovery, and
\* every regression result that is reached compares against them
BaselineIsDiscovery ==
    /\ params # None =>
          /\ discovered_from # None
          /\ \A id \in RegressionIDs : Baseline(id) = discovered_from[1][id]
          /\ params[1].id_188 = discovered_from[1][188]
    /\ Resolved =>
          \A id \in RegressionIDs :
             (Present(id) /\ ~(CutShort /\ id \in {196, 197, 199}))
                => RegressionReported(id, discovered_from[1][id])

(* ----------------------------------------------------------------- C2 *)
\* the sample the store held under "cmd_timeout" when the check started
Sample == store_get(Before, "cmd_timeout")
Results188 == ResultsLabelled(emitted, "Command Timeout Counter")
Metrics188 == MetricsNamed(emitted, "harddrive_cmd_timeouts")

\* C2: with attribute 188 present and a previous sample (t0, v0), t0 < now, the
\* run emits one result for 188 whose state is CRIT exactly when
\* (v - v0) / (now - t0) is at least 100 counts per 3600 seconds and OK
\* otherwise; the discovered id_188 plays no part and is never shown as a
\* baseline.
C2_RateDecides188 ==
    (Present(188) /\ Sample # None /\ Sample[1][1] < Now) =>
      /\ Cardinality(Results188) = 1
      /\ \A i \in Results188 :
            /\ emitted[i].state =
                 IF (Attr(188).raw - Sample[1][2]) * 3600 >= 100 * (Now - Sample[1][1])
                 THEN "CRIT" ELSE "OK"
            /\ emitted[i].value = Attr(188).raw
            /\ emitted[i].detail = IF emitted[i].state = "CRIT" THEN Some(100) ELSE None

\* C2 witness: exactly 100 counts per hour (50 counts in 1800 s) is CRIT while
\* discovery recorded a baseline for 188 that the raw value does not exceed
C2_Witness ==
    /\ Present(188) /\ Sample = Some(<<0, 0>>) /\ Now = 1800 /\ Attr(188).raw = 50
    /\ params[1].id_188 = Some(50)
    /\ \E i \in Results188 : emitted[i].state = "CRIT"

C5_ReplayIsQuiet ==
    (Present(188) /\ Sample # None /\ Sample[1][1] = Now) =>
      /\ raised # Some("ZeroDivisionError")
      /\ \A i \in Results188 : emitted[i].state # "CRIT"
      /\ Sample[1][2] = Attr(188).raw => value_store = Before

\* C5 witness: the stored sample was replayed at its own timestamp
C5_Witness ==
    /\ Present(188) /\ Sample = Some(<<Now, Attr(188).raw>>)
    /\ raised = Some("GetRateError") /\ value_store = Before

(* ----------------------------------------------------------------- C6 *)
\* C6: a check whose disk is missing or not ATA-capable emits nothing, raises
\* nothing and leaves the store unchanged; on a resolved disk without
\* attribute 188 nothing is emitted for 188 and the store is left unchanged.
C6_SilentSkip ==
    /\ (Checked /\ ~Resolved) =>
          emitted = <<>> /\ raised = None /\ value_store = Before
    /\ (Resolved /\ ~Present(188)) =>
          Results188 = {} /\ Metrics188 = {} /\ value_store = Before

\* C6 witness: a check ran against a section whose disk is not ATA-capable
\* while the store already held a sample
C6_Witness ==
    /\ Checked /\ Found # None /\ Found[1].cls = "NVMeAll"
    /\ store_get(value_store, "cmd_timeout") # None
    /\ emitted = <<>>

(* ----------------------------------------------------------------- C9 *)
\* C9: a check leaves the baseline parameters and the section as they were and
\* changes the store at most under the key "cmd_timeout".
C9_CheckFrame ==
    [][ call' # None =>
          /\ params' = params
          /\ section' = section
          /\ \A k \in ((DOMAIN value_store) \cup (DOMAIN value_store')) \ {"cmd_timeout"} :
                store_get(value_store', k) = store_get(value_store, k)
      ]_vars

\* C9 witness: a check has replaced the stored sample by a different one, and
\* the disk shows a raw value above the baseline of attribute 5
C9_Witness ==
    /\ Present(188) /\ Sample # None /\ Sample # store_get(value_store, "cmd_timeout")
    /\ Present(5) /\ Verdict(Attr(5).raw, params[1].id_5) = "CRIT"
    /\ store_get(value_store, "unrelated") # None

====
